---- MODULE Spec2Model ----
(***************************************************************************)
(* task-rand: the activity scheduling engine (src/src/app.rs), the event   *)
(* loop that drives it (src/src/main.rs) and the commands it builds for    *)
(* the tracker (src/src/taskwarrior.rs).                                   *)
(*                                                                         *)
(* Durations and instants are whole minutes.  Option<T> is a sequence of   *)
(* length 0 (None) or 1 (Some).  A Command is the sequence of its program  *)
(* and arguments.  Result<T> is a record [ok, val, err].                   *)
(***************************************************************************)
EXTENDS Integers, Sequences, FiniteSets, TLC

VARIABLES
    doing,          \* App.doing: the current Activity
    interactive,    \* App.interactive: Option<Command>
    should_quit,    \* App.should_quit
    pc,             \* position of Cli::run / Cli::run_ui
    command,        \* run_ui: the command taken by take_interactive
    status,         \* run_ui: exit status of that command
    surface,        \* the terminal: "raw" after ratatui::init, "restored" after ratatui::restore
    error,          \* the error run_ui returned (its context chain), <<>> when none
    clock,          \* Utc::now()
    last,           \* history: the last handle_tick / handle_input / refresh_doing call
    tw_call,        \* history: the tracker export made by the last step
    tw_reply,       \* history: the tracker's answer to that export
    extends         \* history: calls of Activity::extend since doing was last assigned

appvars == <<doing, interactive, should_quit>>
drivervars == <<pc, command, status, surface, error>>
histvars == <<last, tw_call, tw_reply, extends>>
vars == <<doing, interactive, should_quit, pc, command, status, surface, error,
          clock, last, tw_call, tw_reply, extends>>

----------------------------------------------------------------------------
(* Bounds of the model *)

MaxAdvances == 1
ClockStep == 20
MaxExtends == 2

(* Values the tracker may report *)
Uuids == {"a", "b"}
Estimates == {<<>>, <<15>>}
Urgencies == {-5, 0, 10}

----------------------------------------------------------------------------
(* Option and Result *)

None == <<>>
Some(x) == <<x>>
unwrap_or(opt, default) == IF opt = None THEN default ELSE opt[1]

Ok(v) == [ok |-> TRUE, val |-> v, err |-> ""]
Err(e, v) == [ok |-> FALSE, val |-> v, err |-> e]

Min(a, b) == IF a <= b THEN a ELSE b
Max(a, b) == IF a >= b THEN a ELSE b

----------------------------------------------------------------------------
(* Task snapshots and activities *)

NoTask == [uuid |-> "", estimate |-> None, urgency |-> 0]

Tasks == [uuid : Uuids, estimate : Estimates, urgency : Urgencies]

Nothing == [kind |-> "Nothing", task |-> NoTask, started |-> 0, length |-> 0,
            original_length |-> 0]

Task(task, started, length, original_length) ==
    [kind |-> "Task", task |-> task, started |-> started, length |-> length,
     original_length |-> original_length]

Break(started, length, original_length) ==
    [kind |-> "Break", task |-> NoTask, started |-> started, length |-> length,
     original_length |-> original_length]

is_nothing(self) == self.kind = "Nothing"

is_break(self) == self.kind = "Break"

----------------------------------------------------------------------------
(* Commands (taskwarrior.rs and the key handlers of app.rs) *)

TaskBin == "task"

Taskwarrior_mark_done_command(id) == <<TaskBin, id, "done">>

ModifyBuilder_command(subjects, mods) == <<TaskBin>> \o subjects \o <<"modify">> \o mods

edit_command(task) == <<TaskBin, task.uuid, "edit">>

wait_command(task) == ModifyBuilder_command(<<task.uuid>>, <<"wait:1h">>)

open_command(task) == <<"tw-open", task.uuid>>

breakdown_command(task) == <<"tw-breakdown", "--seq", task.uuid>>

mark_done_command(self) ==
    IF self.kind = "Task" THEN Some(Taskwarrior_mark_done_command(self.task.uuid))
    ELSE None

----------------------------------------------------------------------------
(* Activity::extend and Activity::refresh_task *)

(* mutants of extend: a fresh interval instead of an added one; the       *)
(* interval restarted at the extension                                    *)
extend_reset(self) ==
    IF self.kind \in {"Task", "Break"}
    THEN [self EXCEPT !.length = 2 * self.original_length]
    ELSE self

extend(self) ==
    IF self.kind \in {"Task", "Break"}
    THEN [self EXCEPT !.length = self.length + self.original_length]
    ELSE self

(* mutant of FetchResults: the export is limited to one task, of any uuid *)
FetchResults_unfiltered(uuid) ==
    {Err("could not refresh task", {})} \cup {Ok({})} \cup {Ok({t}) : t \in Tasks}

(* What `task <uuid> limit:1 export` may answer: the call fails, or it     *)
(* yields no task, or the current snapshot of the task with that uuid.     *)
FetchResults(uuid) ==
    {Err("could not refresh task", {})} \cup {Ok({})}
        \cup {Ok({t}) : t \in {x \in Tasks : x.uuid = uuid}}

(* Whether refresh_task calls the tracker, and with which filter *)
refresh_filter(self) == IF self.kind = "Task" THEN Some(self.task.uuid) ELSE None

(* mutant of refresh_task: the refreshed activity loses its extensions *)
refresh_task_reset(self, fetched) ==
    IF self.kind = "Task"
    THEN IF ~fetched.ok THEN Err("could not refresh task", self)
         ELSE IF fetched.val = {} THEN Err("could not find task", self)
         ELSE Ok([self EXCEPT !.task = CHOOSE t \in fetched.val : TRUE,
                              !.length = self.original_length])
    ELSE Ok(self)

(* fetched: the answer of the export, read only for a Task *)
refresh_task(self, fetched) ==
    IF self.kind = "Task"
    THEN IF ~fetched.ok THEN Err("could not refresh task", self)
         ELSE IF fetched.val = {} THEN Err("could not find task", self)
         ELSE Ok([self EXCEPT !.task = CHOOSE t \in fetched.val : TRUE])
    ELSE Ok(self)

----------------------------------------------------------------------------
(* The selector: App::available_tasks and App::choose_next_task *)

BreakMinutes == 10
BucketMinutes == 10
MaxRoll == 5

Rolls == 0..MaxRoll

(* Candidate lists the tracker may export: at most one snapshot per uuid *)
CandidateLists ==
    {ts \in SUBSET Tasks : \A s, t \in ts : s.uuid = t.uuid => s = t}

ExportResults == {Err("could not get tasks", {})} \cup {Ok(ts) : ts \in CandidateLists}

urgency_at(task, now) == task.urgency

(* mutant of choose_weighted: `choose`, every item alike *)
choose_weighted_uniform(tasks, now) ==
    IF tasks = {} THEN {Err("could not choose a task", NoTask)}
    ELSE {Ok(t) : t \in tasks}

(* rand's choose_weighted: an error for an empty list, a negative weight   *)
(* or a zero total; otherwise any item of positive weight.                 *)
choose_weighted(tasks, now) ==
    IF tasks = {} \/ (\E t \in tasks : urgency_at(t, now) < 0)
                  \/ (\A t \in tasks : urgency_at(t, now) = 0)
    THEN {Err("could not choose a task", NoTask)}
    ELSE {Ok(t) : t \in {x \in tasks : urgency_at(x, now) > 0}}

(* mutants of takes_break: a break only from Nothing; a break on every 0 *)
takes_break_idle_only(self_doing, minutes) == minutes = 0 /\ is_nothing(self_doing)
takes_break_any(self_doing, minutes) == minutes = 0

(* `minutes == 0 && !self.doing.is_break()` *)
takes_break(self_doing, minutes) == minutes = 0 /\ ~is_break(self_doing)

break_activity(now) == Break(now, BreakMinutes, BreakMinutes)

target_duration(minutes) == Max(minutes, 1) * BucketMinutes

(* mutant of work_length: the estimate is not capped by the target *)
work_length_uncapped(estimate, target) == unwrap_or(estimate, target)

(* `task.estimate.unwrap_or(target_duration).min(target_duration)` *)
work_length(estimate, target) == Min(unwrap_or(estimate, target), target)

(* mutant of work_activity: original_length is the rolled target *)
work_activity_original_target(task, now, target) ==
    Task(task, now, work_length(task.estimate, target), target)

work_activity(task, now, target) ==
    LET length == work_length(task.estimate, target)
    IN  Task(task, now, length, length)

(* mutant of choose_next_task: the task being worked on is not a candidate *)
choose_next_task_excluding(self_doing, now, minutes, exported_tasks) ==
    IF takes_break(self_doing, minutes)
    THEN {[res |-> Ok(break_activity(now)), exported |-> FALSE]}
    ELSE IF ~exported_tasks.ok
         THEN {[res |-> Err("could not get tasks", Nothing), exported |-> TRUE]}
         ELSE {[res |-> IF c.ok
                        THEN Ok(work_activity(c.val, now, target_duration(minutes)))
                        ELSE Err(c.err, Nothing),
                exported |-> TRUE] :
                    c \in choose_weighted({t \in exported_tasks.val :
                                              t.uuid # self_doing.task.uuid}, now)}

(* The outcomes of one call: each a Result with `exported` telling whether *)
(* available_tasks was called.  minutes is the roll, exported_tasks the    *)
(* tracker's answer (read on the work branch only).                        *)
choose_next_task(self_doing, now, minutes, exported_tasks) ==
    IF takes_break(self_doing, minutes)
    THEN {[res |-> Ok(break_activity(now)), exported |-> FALSE]}
    ELSE IF ~exported_tasks.ok
         THEN {[res |-> Err("could not get tasks", Nothing), exported |-> TRUE]}
         ELSE {[res |-> IF c.ok
                        THEN Ok(work_activity(c.val, now, target_duration(minutes)))
                        ELSE Err(c.err, Nothing),
                exported |-> TRUE] : c \in choose_weighted(exported_tasks.val, now)}

----------------------------------------------------------------------------
(* History of the last call of handle_tick, handle_input or refresh_doing *)

(* pre: the variant of doing, and the uuid of its task, when the call began *)
Pre(self) == [kind |-> self.kind, uuid |-> self.task.uuid]

NoLast == [op |-> "none", key |-> "", pre |-> Pre(Nothing), selected |-> FALSE,
           roll |-> 0, at |-> 0, result |-> "ok"]

(* The two exports the engine makes: the candidates (available_tasks) and  *)
(* one task by uuid (refresh_task)                                         *)
CandidatesCall == [filters |-> <<"jirastatus.not:backlog", "+READY">>]
OneTaskCall(uuid) == [filters |-> <<uuid, "limit:1">>]

(* A handler call that did not run the selector *)
Plain(op, key, result) ==
    /\ last' = [op |-> op, key |-> key, pre |-> Pre(doing), selected |-> FALSE,
                roll |-> 0, at |-> clock, result |-> result]
    /\ tw_call' = None
    /\ tw_reply' = None

(* mutant of AssignNext: the activity is cleared before the selector runs *)
AssignNext_clears(op, key, minutes, exported_tasks) ==
    \E o \in choose_next_task(doing, clock, minutes, exported_tasks) :
        /\ doing' = IF o.res.ok THEN o.res.val ELSE Nothing
        /\ extends' = 0
        /\ last' = [op |-> op, key |-> key, pre |-> Pre(doing), selected |-> TRUE,
                    roll |-> minutes, at |-> clock,
                    result |-> IF o.res.ok THEN "ok" ELSE o.res.err]
        /\ tw_call' = IF o.exported THEN Some(CandidatesCall) ELSE None
        /\ tw_reply' = IF o.exported THEN Some(exported_tasks) ELSE None

(* `self.doing = self.choose_next_task().await?`: the roll and the         *)
(* tracker's answer are the inputs, o is the outcome taken.                *)
AssignNext(op, key, minutes, exported_tasks) ==
    \E o \in choose_next_task(doing, clock, minutes, exported_tasks) :
        /\ doing' = IF o.res.ok THEN o.res.val ELSE doing
        /\ extends' = IF o.res.ok THEN 0 ELSE extends
        /\ last' = [op |-> op, key |-> key, pre |-> Pre(doing), selected |-> TRUE,
                    roll |-> minutes, at |-> clock,
                    result |-> IF o.res.ok THEN "ok" ELSE o.res.err]
        /\ tw_call' = IF o.exported THEN Some(CandidatesCall) ELSE None
        /\ tw_reply' = IF o.exported THEN Some(exported_tasks) ELSE None

----------------------------------------------------------------------------
(* App::handle_tick and App::handle_input.  Each leaves the driver's       *)
(* variables and the clock to the caller.                                  *)

(* mutant of handle_tick: an expired interval is re-selected too *)
handle_tick_on_expiry(minutes, exported_tasks) ==
    /\ IF is_nothing(doing) \/ doing.length - (clock - doing.started) < 0
       THEN AssignNext("tick", "", minutes, exported_tasks)
       ELSE Plain("tick", "", "ok") /\ UNCHANGED <<doing, extends>>
    /\ UNCHANGED <<interactive, should_quit>>

handle_tick(minutes, exported_tasks) ==
    /\ IF is_nothing(doing)
       THEN AssignNext("tick", "", minutes, exported_tasks)
       ELSE Plain("tick", "", "ok") /\ UNCHANGED <<doing, extends>>
    /\ UNCHANGED <<interactive, should_quit>>

Keys == {"q", "d", "r", "m", "e", "w", "o", "b", "f", "other"}

(* 'f': `*length - (Utc::now() - started)` *)
remaining(self, now) == self.length - (now - self.started)

(* The arms of handle_input's match on the key *)

KeyQ ==
    /\ should_quit' = TRUE
    /\ Plain("input", "q", "ok")
    /\ UNCHANGED <<doing, interactive, extends>>

(* mutants of KeyD: the command is built after the selection, for the new *)
(* activity; the command is staged and the selection left to the next tick *)
KeyD_swapped(minutes, exported_tasks) ==
    /\ AssignNext("input", "d", minutes, exported_tasks)
    /\ interactive' = mark_done_command(doing')
    /\ UNCHANGED should_quit

KeyD_no_select(minutes, exported_tasks) ==
    /\ interactive' = mark_done_command(doing)
    /\ Plain("input", "d", "ok")
    /\ UNCHANGED <<doing, should_quit, extends>>

(* mutant of KeyD: the activity is cleared and the selection left to the next tick *)
KeyD_clears(minutes, exported_tasks) ==
    /\ interactive' = mark_done_command(doing)
    /\ doing' = Nothing
    /\ extends' = 0
    /\ Plain("input", "d", "ok")
    /\ UNCHANGED should_quit

KeyD(minutes, exported_tasks) ==
    /\ interactive' = mark_done_command(doing)
    /\ AssignNext("input", "d", minutes, exported_tasks)
    /\ UNCHANGED should_quit

(* mutant of KeyR: a running interval is not interrupted *)
KeyR_if_expired(minutes, exported_tasks) ==
    IF doing.kind # "Nothing" /\ doing.length - (clock - doing.started) > 0
    THEN /\ Plain("input", "r", "ok")
         /\ UNCHANGED <<doing, interactive, should_quit, extends>>
    ELSE /\ AssignNext("input", "r", minutes, exported_tasks)
         /\ UNCHANGED <<interactive, should_quit>>

KeyR(minutes, exported_tasks) ==
    /\ AssignNext("input", "r", minutes, exported_tasks)
    /\ UNCHANGED <<interactive, should_quit>>

KeyM ==
    /\ extends < MaxExtends
    /\ doing' = extend(doing)
    /\ extends' = extends + 1
    /\ Plain("input", "m", "ok")
    /\ UNCHANGED <<interactive, should_quit>>

(* mutant of Stage: the command is staged whatever the activity *)
Stage_any_activity(key, cmd) ==
    /\ interactive' = Some(cmd)
    /\ Plain("input", key, "ok")
    /\ UNCHANGED <<doing, should_quit, extends>>

(* 'e', 'o' and 'b': stage build(task) when working on a task *)
Stage(key, cmd) ==
    /\ interactive' = IF doing.kind = "Task" THEN Some(cmd) ELSE interactive
    /\ Plain("input", key, "ok")
    /\ UNCHANGED <<doing, should_quit, extends>>

KeyE == Stage("e", edit_command(doing.task))

(* mutant of KeyW: the command is staged and the task kept *)
KeyW_no_select(minutes, exported_tasks) ==
    /\ interactive' = IF doing.kind = "Task" THEN Some(wait_command(doing.task))
                      ELSE interactive
    /\ Plain("input", "w", "ok")
    /\ UNCHANGED <<doing, should_quit, extends>>

KeyW(minutes, exported_tasks) ==
    IF doing.kind = "Task"
    THEN /\ interactive' = Some(wait_command(doing.task))
         /\ AssignNext("input", "w", minutes, exported_tasks)
         /\ UNCHANGED should_quit
    ELSE /\ Plain("input", "w", "ok")
         /\ UNCHANGED <<doing, interactive, should_quit, extends>>

KeyO == Stage("o", open_command(doing.task))

KeyB == Stage("b", breakdown_command(doing.task))

KeyF(opened) ==
    /\ Plain("input", "f",
             IF doing.kind = "Task" /\ remaining(doing, clock) > 0 /\ ~opened
             THEN "could not start focus session" ELSE "ok")
    /\ UNCHANGED <<doing, interactive, should_quit, extends>>

handle_input(key, minutes, exported_tasks, opened) ==
    CASE key = "q" -> KeyQ
      [] key = "d" -> KeyD(minutes, exported_tasks)
      [] key = "r" -> KeyR(minutes, exported_tasks)
      [] key = "m" -> KeyM
      [] key = "e" -> KeyE
      [] key = "w" -> KeyW(minutes, exported_tasks)
      [] key = "o" -> KeyO
      [] key = "b" -> KeyB
      [] key = "f" -> KeyF(opened)
      [] OTHER ->
            /\ Plain("input", key, "ok")
            /\ UNCHANGED <<doing, interactive, should_quit, extends>>

(* The inputs a key's handler reads: the roll and the tracker's answer for *)
(* the keys that run the selector, the outcome of open::that for 'f'       *)
RollsFor(key) == IF key \in {"d", "r", "w"} THEN Rolls ELSE {0}
ExportsFor(key) == IF key \in {"d", "r", "w"} THEN ExportResults ELSE {Ok({})}
OpenedFor(key) == IF key = "f" THEN BOOLEAN ELSE {TRUE}

(* mutant of take_interactive: the command is copied out, the slot kept *)
take_interactive_peek == interactive' = interactive

(* App::take_interactive: the value returned is the old interactive *)
take_interactive == interactive' = None

(* App::refresh_doing: r is the Result of refresh_task *)
refresh_doing(r) ==
    /\ doing' = r.val
    /\ last' = [op |-> "refresh", key |-> "", pre |-> Pre(doing), selected |-> FALSE,
                roll |-> 0, at |-> clock, result |-> IF r.ok THEN "ok" ELSE r.err]
    /\ tw_call' = IF refresh_filter(doing) = None THEN None
                  ELSE Some(OneTaskCall(refresh_filter(doing)[1]))

(* The answers the tracker may give to the export refresh_task makes *)
Fetched(self) ==
    IF refresh_filter(self) = None THEN {Ok({})}
    ELSE FetchResults(refresh_filter(self)[1])

----------------------------------------------------------------------------
(* The clock: time passes while the loop waits and while a command runs *)

Advance ==
    /\ pc \in {"select", "run_command"}
    /\ clock + ClockStep <= MaxAdvances * ClockStep
    /\ clock' = clock + ClockStep
    /\ UNCHANGED <<appvars, drivervars, histvars>>

----------------------------------------------------------------------------
(* Cli::run and Cli::run_ui (main.rs) *)

Init ==
    /\ doing = Nothing
    /\ interactive = None
    /\ should_quit = FALSE
    /\ pc = "start"
    /\ command = None
    /\ status = "none"
    /\ surface = "raw"
    /\ error = <<>>
    /\ clock = 0
    /\ last = NoLast
    /\ tw_call = None
    /\ tw_reply = None
    /\ extends = 0

(* mutant of Propagate: a failed handler is tried again *)
Propagate_retries(ctx, next) ==
    /\ pc' = IF last'.result = "ok" THEN next ELSE pc
    /\ error' = IF last'.result = "ok" THEN error ELSE <<ctx, last'.result>>

(* `handler.await.context(ctx)?` *)
Propagate(ctx, next) ==
    /\ pc' = IF last'.result = "ok" THEN next ELSE "failed"
    /\ error' = IF last'.result = "ok" THEN error ELSE <<ctx, last'.result>>

InitialTick ==
    /\ pc = "start"
    /\ \E minutes \in Rolls, exported_tasks \in ExportResults :
            handle_tick(minutes, exported_tasks)
    /\ Propagate("could not handle initial tick", "render")
    /\ UNCHANGED <<command, status, surface, clock>>

Render ==
    /\ pc = "render"
    /\ pc' = "select"
    /\ tw_call' = None
    /\ tw_reply' = None
    /\ UNCHANGED <<appvars, command, status, surface, error, clock, last, extends>>

(* mutant of OnEvent: after an event the loop goes on waiting for the next *)
OnEvent_keeps_waiting ==
    /\ pc = "select"
    /\ \E key \in Keys :
       \E minutes \in RollsFor(key), exported_tasks \in ExportsFor(key),
          opened \in OpenedFor(key) :
            handle_input(key, minutes, exported_tasks, opened)
    /\ Propagate("could not handle event", "select")
    /\ UNCHANGED <<command, status, surface, clock>>

OnEvent ==
    /\ pc = "select"
    /\ \E key \in Keys :
       \E minutes \in RollsFor(key), exported_tasks \in ExportsFor(key),
          opened \in OpenedFor(key) :
            handle_input(key, minutes, exported_tasks, opened)
    /\ Propagate("could not handle event", "check_quit")
    /\ UNCHANGED <<command, status, surface, clock>>

OnTick ==
    /\ pc = "select"
    /\ \E minutes \in IF is_nothing(doing) THEN Rolls ELSE {0},
          exported_tasks \in IF is_nothing(doing) THEN ExportResults ELSE {Ok({})} :
            handle_tick(minutes, exported_tasks)
    /\ Propagate("could not handle tick", "check_quit")
    /\ UNCHANGED <<command, status, surface, clock>>

(* mutant of CheckQuit: the flag is not looked at *)
CheckQuit_never ==
    /\ pc = "check_quit"
    /\ pc' = "check_interactive"
    /\ tw_call' = None
    /\ tw_reply' = None
    /\ UNCHANGED <<appvars, command, status, surface, error, clock, last, extends>>

CheckQuit ==
    /\ pc = "check_quit"
    /\ pc' = IF should_quit THEN "quit" ELSE "check_interactive"
    /\ tw_call' = None
    /\ tw_reply' = None
    /\ UNCHANGED <<appvars, command, status, surface, error, clock, last, extends>>

TakeInteractive ==
    /\ pc = "check_interactive"
    /\ command' = interactive
    /\ take_interactive
    /\ IF interactive # None
       THEN surface' = "restored" /\ pc' = "run_command"
       ELSE surface' = surface /\ pc' = "render"
    /\ tw_call' = None
    /\ tw_reply' = None
    /\ UNCHANGED <<doing, should_quit, status, error, clock, last, extends>>

(* command.status().await: the program cannot be started, or it runs to   *)
(* completion and exits with success or failure                           *)
RunCommand ==
    /\ pc = "run_command"
    /\ \E st \in {"spawn_error", "success", "failure"} :
        /\ status' = st
        /\ pc' = IF st = "spawn_error" THEN "failed" ELSE "init_terminal"
        /\ error' = IF st = "spawn_error" THEN <<"could not run command">> ELSE error
    /\ tw_call' = None
    /\ tw_reply' = None
    /\ UNCHANGED <<appvars, command, surface, clock, last, extends>>

InitTerminal ==
    /\ pc = "init_terminal"
    /\ surface' = "raw"
    /\ pc' = "check_status"
    /\ tw_call' = None
    /\ tw_reply' = None
    /\ UNCHANGED <<appvars, command, status, error, clock, last, extends>>

(* mutant of CheckStatus: the exit status is not looked at *)
CheckStatus_ignores_failure ==
    /\ pc = "check_status"
    /\ pc' = "refresh"
    /\ tw_call' = None
    /\ tw_reply' = None
    /\ UNCHANGED <<appvars, command, status, surface, error, clock, last, extends>>

CheckStatus ==
    /\ pc = "check_status"
    /\ pc' = IF status = "success" THEN "refresh" ELSE "failed"
    /\ error' = IF status = "success" THEN error ELSE <<"command failed with exit code">>
    /\ tw_call' = None
    /\ tw_reply' = None
    /\ UNCHANGED <<appvars, command, status, surface, clock, last, extends>>

RefreshDoing ==
    /\ pc = "refresh"
    /\ \E fetched \in Fetched(doing) :
        LET r == refresh_task(doing, fetched)
        IN  /\ refresh_doing(r)
            /\ tw_reply' = IF refresh_filter(doing) = None THEN None ELSE Some(fetched)
            /\ pc' = IF r.ok THEN "render" ELSE "failed"
            /\ error' = IF r.ok THEN error
                        ELSE <<"could not refresh task after interactive session", r.err>>
            \* command and status go out of scope at the end of the `if let` block
            /\ command' = IF r.ok THEN None ELSE command
            /\ status' = IF r.ok THEN "none" ELSE status
    /\ UNCHANGED <<interactive, should_quit, surface, clock, extends>>

(* Cli::run after run_ui returned, and main *)
Finish ==
    /\ pc \in {"quit", "failed"}
    /\ surface' = "restored"
    /\ pc' = IF pc = "quit" THEN "exit_0" ELSE "exit_1"
    /\ tw_call' = None
    /\ tw_reply' = None
    /\ UNCHANGED <<appvars, command, status, error, clock, last, extends>>

Next ==
    \/ InitialTick
    \/ Render
    \/ OnEvent
    \/ OnTick
    \/ CheckQuit
    \/ TakeInteractive
    \/ RunCommand
    \/ InitTerminal
    \/ CheckStatus
    \/ RefreshDoing
    \/ Finish
    \/ Advance

Spec == Init /\ [][Next]_vars

----------------------------------------------------------------------------
(* Steps of the engine, as the properties below name them *)

(* This step is a call of handle_tick or handle_input that returned *)
HandlerStep == pc \in {"start", "select"} /\ pc' # pc

(* This step is a call of refresh_doing *)
RefreshStep == pc = "refresh" /\ pc' # pc

(* This step ran the selector and installed what it chose *)
SelectionStep == HandlerStep /\ last'.selected /\ last'.result = "ok"

(* The last call ran the selector, which succeeded; doing is what it installed *)
Selected == last.selected /\ last.result = "ok"

Working == doing.kind = "Task"
OnBreak == doing.kind = "Break"

----------------------------------------------------------------------------
\* C1: after every successful work selection with roll r and chosen task t, the
\* planned length is min(E, T) when t declares an estimate E and T otherwise, where
\* T = max(r, 1) * 10 minutes, and original_length equals the planned length.
C1_WorkLength ==
    (Selected /\ Working) =>
        LET T == (IF last.roll >= 1 THEN last.roll ELSE 1) * 10
            E == doing.task.estimate
        IN  /\ doing.length = IF E = <<>> THEN T ELSE IF E[1] <= T THEN E[1] ELSE T
            /\ doing.original_length = doing.length

\* the scenario of the specification: Nothing, a tick, estimate 15, target 20
C1_Witness ==
    /\ Selected /\ Working
    /\ last.op = "tick" /\ last.pre.kind = "Nothing" /\ last.roll = 2
    /\ doing.task.estimate = <<15>> /\ doing.length = 15

\* C2: a selection that rolls 0 while the activity is Nothing or Working always
\* succeeds with a break of planned length = original_length = 10 minutes started
\* at the selection time, and makes no tracker call.
C2_RollZeroBreak ==
    (last.selected /\ last.roll = 0 /\ last.pre.kind # "Break") =>
        /\ last.result = "ok"
        /\ doing = [kind |-> "Break", task |-> NoTask, started |-> last.at,
                    length |-> 10, original_length |-> 10]
        /\ tw_call = <<>>

C2_Witness ==
    /\ last.selected /\ last.roll = 0 /\ last.pre.kind = "Task" /\ last.key = "d"
    /\ OnBreak /\ doing.started = 20 /\ pc = "check_quit"

\* C3: a selection made while on a break never installs a break: it installs a
\* Working activity or fails leaving the break, and a roll of 0 there is a 10 minute
\* work target.
C3_NoBreakAfterBreak ==
    (last.selected /\ last.pre.kind = "Break") =>
        IF last.result = "ok"
        THEN /\ Working
             /\ last.roll = 0 =>
                    LET E == doing.task.estimate
                    IN  doing.length = IF E = <<>> \/ E[1] > 10 THEN 10 ELSE E[1]
        ELSE OnBreak

C3_Witness ==
    /\ last.selected /\ last.pre.kind = "Break" /\ last.roll = 0
    /\ last.result = "ok" /\ Working /\ doing.length = 10

\* C4: n calls of extend since the activity was installed leave planned length =
\* P0 + n * original_length, where P0 = original_length is the planned length every
\* selection installs; extend on Nothing leaves Nothing.
C4_ExtendAdds ==
    /\ (Working \/ OnBreak) =>
            doing.length = doing.original_length + extends * doing.original_length
    /\ doing.kind = "Nothing" => doing = Nothing
    /\ extend(Nothing) = Nothing

C4_Witness ==
    /\ Working /\ extends = 2 /\ last.key = "m"
    /\ doing.original_length = 15 /\ doing.length = 45

\* C5: whenever the activity is Working or OnBreak, planned length >= original_length.
C5_PlannedAtLeastOriginal ==
    (Working \/ OnBreak) => doing.length >= doing.original_length

C5_Witness ==
    /\ OnBreak /\ extends = 2 /\ doing.length = 30 /\ doing.original_length = 10
    /\ last.key = "m" /\ pc = "select"

\* C6: a step that is not a successful selection never changes the variant, started
\* or original_length; planned length is changed by extend alone; refresh_doing on
\* Working exports the held task by its uuid and replaces at most the snapshot;
\* refresh_doing on a break changes nothing and makes no tracker call; no other
\* step touches the activity.
C6_TimingFramed ==
    [][ /\ ~SelectionStep =>
                /\ doing'.kind = doing.kind
                /\ doing'.started = doing.started
                /\ doing'.original_length = doing.original_length
                /\ doing'.length # doing.length => (HandlerStep /\ last'.key = "m")
        /\ RefreshStep =>
                IF doing.kind = "Task"
                THEN /\ doing'.length = doing.length
                     /\ doing'.task.uuid = doing.task.uuid
                     /\ tw_call' = <<[filters |-> <<doing.task.uuid, "limit:1">>]>>
                ELSE doing' = doing /\ tw_call' = <<>>
        /\ ~(HandlerStep \/ RefreshStep) => doing' = doing
      ]_vars

\* a refresh that replaced the snapshot of an extended task: the length 30 is
\* twice the estimate of 15 the task had when it was selected
C6_Witness ==
    /\ Working /\ last.op = "refresh" /\ last.result = "ok" /\ extends = 1
    /\ doing.length = 30 /\ doing.task.estimate = <<>> /\ doing.started < clock

\* C7: handle_tick on a Working or OnBreak activity returns Ok leaving activity,
\* pending interaction and quit flag unchanged, without running the selector and
\* without a tracker call, also when the interval has expired.
C7_TickOnlyFromNothing ==
    [][ (HandlerStep /\ last'.op = "tick" /\ doing.kind # "Nothing") =>
            /\ doing' = doing
            /\ interactive' = interactive
            /\ should_quit' = should_quit
            /\ tw_call' = <<>>
            /\ ~last'.selected
            /\ last'.result = "ok"
      ]_vars

\* a tick handled after the interval of the task ended
C7_Witness ==
    /\ last.op = "tick" /\ last.pre.kind = "Task" /\ Working
    /\ clock > doing.started + doing.length /\ pc = "check_quit"

\* C8: reroll always runs the selector; when it succeeds the activity is the fresh
\* one, started at the call time with planned length = original_length and no
\* extension; no interaction is pending and no command is run in that iteration.
C8_Reroll ==
    (last.op = "input" /\ last.key = "r") =>
        /\ last.selected
        /\ interactive = <<>>
        /\ command = <<>>
        /\ last.result = "ok" =>
                /\ Working \/ OnBreak
                /\ doing.started = last.at
                /\ doing.length = doing.original_length
                /\ extends = 0

\* a reroll at time 0 of a break that began at time 0: mid-interval
C8_Witness ==
    /\ last.op = "input" /\ last.key = "r" /\ last.pre.kind = "Break" /\ last.at = 0
    /\ last.result = "ok" /\ Working /\ doing.started = 0

\* C9: complete runs the selector in the same handler; on Working(t) it stages
\* exactly `task <t.uuid> done`, which the driver then takes and runs; on OnBreak or
\* Nothing it stages nothing, so that re-selection is its only effect.
C9_Complete ==
    /\ (last.op = "input" /\ last.key = "d") =>
        LET staged == IF pc \in {"check_quit", "check_interactive"} \/ last.result # "ok"
                      THEN interactive ELSE command
        IN  /\ last.selected
            /\ last.result = "ok" => (doing.started = last.at /\ extends = 0)
            /\ staged = IF last.pre.kind = "Task"
                        THEN << <<"task", last.pre.uuid, "done">> >>
                        ELSE <<>>
            /\ interactive = <<>> \/ command = <<>>
    /\ mark_done_command(Nothing) = <<>>

C9_Witness ==
    /\ last.op = "input" /\ last.key = "d" /\ last.pre = [kind |-> "Task", uuid |-> "a"]
    /\ interactive = << <<"task", "a", "done">> >>
    /\ Working /\ doing.task.uuid = "b" /\ pc = "check_quit"

\* C10 as stated: when the mark-done command of a completed task fails, the run
\* ends with the activity still the Working activity that was being completed, no
\* new activity installed.
C10_Original ==
    (pc = "failed" /\ status = "failure" /\ last.key = "d" /\ last.pre.kind = "Task") =>
        /\ Working /\ doing.task.uuid = last.pre.uuid
        /\ ~Selected

\* C10 amended: when the mark-done command of a completed task fails, the run ends
\* with the error "command failed with exit code" after the terminal was set up
\* again, and the activity is the one the selector installed in the complete
\* handler, before the command ran: started at the handler's time, not extended.
C10_FailedDoneKeepsNewActivity ==
    (pc \in {"failed", "exit_1"} /\ status = "failure" /\ last.key = "d"
        /\ last.pre.kind = "Task") =>
        /\ error = <<"command failed with exit code">>
        /\ command = << <<"task", last.pre.uuid, "done">> >>
        /\ interactive = <<>>
        /\ surface = IF pc = "failed" THEN "raw" ELSE "restored"
        /\ Selected
        /\ Working \/ OnBreak
        /\ doing.started = last.at
        /\ doing.length = doing.original_length
        /\ extends = 0

C10_Witness ==
    /\ pc = "exit_1" /\ status = "failure" /\ last.key = "d"
    /\ last.pre = [kind |-> "Task", uuid |-> "a"] /\ OnBreak /\ doing.started = 20

\* C11: a selection on the work branch (roll # 0, or any roll on a break) asks the
\* tracker for the candidates, and when the list it gets is empty or holds only
\* weights <= 0 the handler fails with "could not choose a task", the run's error
\* carries that cause, and the activity is what it was before the handler.
C11_SelectionFailureKeepsActivity ==
    [][ (HandlerStep /\ last'.selected /\ (last'.roll # 0 \/ doing.kind = "Break")) =>
            /\ tw_call' = << [filters |-> <<"jirastatus.not:backlog", "+READY">>] >>
            /\ tw_reply' # <<>>
            /\ (tw_reply'[1].ok /\ \A t \in tw_reply'[1].val : t.urgency <= 0) =>
                    /\ last'.result = "could not choose a task"
                    /\ pc' = "failed"
                    /\ error'[Len(error')] = "could not choose a task"
                    /\ doing' = doing
      ]_vars

\* a reroll of a task at roll 3 that got two candidates of weight 0
C11_Witness ==
    /\ pc = "failed" /\ last.key = "r" /\ last.roll = 3 /\ last.pre.kind = "Task"
    /\ last.result = "could not choose a task" /\ Working
    /\ tw_reply # <<>> /\ tw_reply[1].ok /\ Cardinality(tw_reply[1].val) = 2
    /\ \A t \in tw_reply[1].val : t.urgency = 0

\* C12: a selection failure ("could not choose a task") does not terminate the run:
\* the loop keeps running after it.
C12_SelectionFailureNotFatal ==
    last.result = "could not choose a task" => pc \notin {"failed", "exit_1"}

\* C13: the pending interaction is a one-slot mailbox drained once per iteration:
\* nothing is pending and no command is held when an iteration renders or waits; a
\* handler leaves at most the one command it staged; take_interactive hands that
\* command to the driver and empties the slot; a taken command is run, and the
\* driver leaves the run position once the program ended, so that no command is run
\* twice or skipped while the run continues.
C13_Slot ==
    pc \in {"start", "render", "select"} => interactive = <<>> /\ command = <<>>

C13_TakenOnce ==
    [][ /\ (pc = "check_interactive" /\ pc' # pc) =>
                /\ interactive' = <<>>
                /\ command' = interactive
                /\ pc' = IF interactive # <<>> THEN "run_command" ELSE "render"
        /\ (pc = "run_command" /\ pc' # pc) =>
                /\ command # <<>> /\ command' = command /\ interactive' = <<>>
                /\ pc' \in {"init_terminal", "failed"}
        /\ (pc' = "run_command" /\ pc # pc') => pc = "check_interactive"
        /\ (pc \in {"init_terminal", "check_status"}) =>
                command' = command /\ interactive' = <<>>
        /\ (HandlerStep /\ pc' = "check_quit" /\ ~should_quit') =>
                Len(interactive') <= 1
      ]_vars

\* C13: both parts
C13_Mailbox == []C13_Slot /\ C13_TakenOnce

\* an edit command of task a that ran once and succeeded, the slot empty
C13_Witness ==
    /\ pc = "init_terminal" /\ status = "success" /\ interactive = <<>>
    /\ command = << <<"task", "a", "edit">> >> /\ last.key = "e"

\* C14: the handoff runs in this order: the terminal is restored (the rendering
\* surface suspended) when the command is taken, the program runs with the surface
\* suspended, the terminal is set up again, and only then is the exit status looked
\* at; a failure status ends the run with "command failed with exit code", the
\* surface set up and refresh_doing not called; a success status leads to
\* refresh_doing, which precedes the next render and whose failure ends the run.
C14_Positions ==
    /\ pc = "run_command" => (surface = "restored" /\ command # <<>> /\ status = "none")
    /\ pc = "init_terminal" => (surface = "restored" /\ status \in {"success", "failure"})
    /\ pc = "check_status" => (surface = "raw" /\ status \in {"success", "failure"})
    /\ pc = "refresh" => (surface = "raw" /\ status = "success")
    /\ (pc = "failed" /\ status = "failure") =>
            /\ surface = "raw"
            /\ error = <<"command failed with exit code">>
            /\ last.op # "refresh"

C14_Order ==
    [][ /\ (pc = "check_interactive" /\ interactive # <<>>) =>
                (surface' = "restored" /\ pc' = "run_command")
        /\ (pc = "run_command" /\ pc' # pc /\ status' # "spawn_error") =>
                (pc' = "init_terminal" /\ surface' = "restored")
        /\ pc = "init_terminal" => (surface' = "raw" /\ pc' = "check_status"
                                        /\ status' = status)
        /\ pc = "check_status" =>
                /\ pc' = IF status = "success" THEN "refresh" ELSE "failed"
                /\ doing' = doing /\ tw_call' = <<>> /\ last' = last
        /\ pc = "refresh" =>
                /\ last'.op = "refresh"
                /\ pc' = IF last'.result = "ok" THEN "render" ELSE "failed"
                /\ last'.result # "ok" =>
                        error' = <<"could not refresh task after interactive session",
                                   last'.result>>
        /\ (pc' = "render" /\ pc # "render") =>
                \/ pc = "start"
                \/ pc = "refresh"
                \/ pc = "check_interactive" /\ interactive = <<>>
      ]_vars

\* C14: both parts
C14_Handoff == []C14_Positions /\ C14_Order

\* an edit command that exited with a failure status
C14_Witness ==
    /\ pc = "failed" /\ status = "failure" /\ surface = "raw" /\ last.key = "e"
    /\ command = << <<"task", "b", "edit">> >>

(* The command each key stages for the task with this uuid *)
StagedFor(key, uuid) ==
    CASE key = "d" -> <<"task", uuid, "done">>
      [] key = "w" -> <<"task", uuid, "modify", "wait:1h">>
      [] key = "e" -> <<"task", uuid, "edit">>
      [] key = "o" -> <<"tw-open", uuid>>
      [] key = "b" -> <<"tw-breakdown", "--seq", uuid>>

\* C15 as stated: every key that stages an external program (edit, open, breakdown,
\* defer, mark-done) also runs the selector in the same handler.
C15_Original ==
    (last.op = "input" /\ last.key \in {"e", "o", "b", "w", "d"}
        /\ last.pre.kind = "Task") => last.selected

\* C15 amended: on a Working activity mark-done and defer stage their command and,
\* in the same handler and so before the program runs, run the selector and install
\* what it chose; edit, open-external and breakdown stage their command and leave
\* the activity as it is, without running the selector.
C15_StageThenSelect ==
    [][ (HandlerStep /\ doing.kind = "Task" /\ last'.op = "input"
            /\ last'.key \in {"e", "o", "b", "w", "d"}) =>
            /\ interactive' = << StagedFor(last'.key, doing.task.uuid) >>
            /\ command' = <<>>
            /\ IF last'.key \in {"d", "w"}
               THEN /\ last'.selected
                    /\ last'.result = "ok" =>
                            /\ pc' = "check_quit"
                            /\ doing'.kind \in {"Task", "Break"}
                            /\ doing'.started = clock
                            /\ doing'.length = doing'.original_length
               ELSE ~last'.selected /\ doing' = doing /\ pc' = "check_quit"
      ]_vars

\* a defer of task a: its command is running, task b already installed
C15_Witness ==
    /\ pc = "run_command" /\ last.key = "w" /\ last.pre = [kind |-> "Task", uuid |-> "a"]
    /\ command = << <<"task", "a", "modify", "wait:1h">> >>
    /\ Selected /\ Working /\ doing.task.uuid = "b"

(* The uuid a staged command is addressed to *)
TargetOf(cmd) == IF cmd[1] = "tw-breakdown" THEN cmd[3] ELSE cmd[2]

\* C16 as stated: the refresh after a program that succeeded exports the task the
\* program's command was issued against.
C16_Original ==
    [][ (RefreshStep /\ command # <<>>) =>
            tw_call' = << [filters |-> <<TargetOf(command[1]), "limit:1">>] >>
      ]_vars

\* C16 amended: the refresh after a program that succeeded exports the task of the
\* current activity and replaces that task's snapshot: after edit, open and
\* breakdown this is the task the command was issued against; after defer and
\* mark-done it is the task the handler's selection installed before the program
\* ran, and nothing is exported when that selection installed a break.
C16_RefreshesCurrent ==
    [][ RefreshStep =>
            /\ command # <<>> /\ status = "success"
            /\ IF doing.kind = "Task"
               THEN /\ tw_call' = << [filters |-> <<doing.task.uuid, "limit:1">>] >>
                    /\ doing'.task.uuid = doing.task.uuid
                    /\ last'.result = "ok" => doing'.task \in tw_reply'[1].val
               ELSE tw_call' = <<>> /\ doing' = doing
            /\ last.key \in {"e", "o", "b"} =>
                    (doing.kind = "Task" /\ doing.task.uuid = TargetOf(command[1]))
            /\ last.key \in {"d", "w"} => (Selected /\ doing.started = last.at)
      ]_vars

\* the refresh after `task a done` asked for task b, and did not find it
C16_Witness ==
    /\ pc = "failed" /\ last.op = "refresh" /\ last.result = "could not find task"
    /\ command = << <<"task", "a", "done">> >>
    /\ tw_call = << [filters |-> <<"b", "limit:1">>] >>
    /\ Working /\ doing.task.uuid = "b"

\* C17: nothing excludes the task being completed or deferred from the selection
\* made in the same handler: whenever the loop waits while Working on t, for every
\* work roll and every candidate list the selector accepts in which t has a
\* positive weight, choosing t is one of the selector's outcomes.  (That the race
\* happens is the witness: a mark-done of t pending, t installed again.)
C17_HeldTaskNotExcluded ==
    (pc = "select" /\ Working) =>
        \A minutes \in 1..5 :
        \A t \in {x \in Tasks : x.uuid = doing.task.uuid /\ x.urgency > 0} :
        \A others \in {l \in SUBSET {x \in Tasks : x.uuid # t.uuid /\ x.urgency >= 0} :
                            Cardinality(l) <= 1} :
            \E o \in choose_next_task(doing, clock, minutes,
                                      [ok |-> TRUE, val |-> {t} \cup others, err |-> ""]) :
                o.res.ok /\ o.res.val.kind = "Task" /\ o.res.val.task = t

C17_Witness ==
    /\ pc = "check_interactive" /\ last.key = "d"
    /\ last.pre = [kind |-> "Task", uuid |-> "a"]
    /\ interactive = << <<"task", "a", "done">> >>
    /\ Selected /\ Working /\ doing.task.uuid = "a"

\* C18: the weighted choice never returns a task of weight 0: whenever a selection
\* got a candidate list, a task it installs is one of the list with weight > 0 (so
\* from weights {10, 0} the task of weight 10), and when every weight of the list is
\* 0, a single candidate included, the selection fails with "could not choose a
\* task".
C18_NoZeroWeight ==
    (last.selected /\ tw_reply # <<>> /\ tw_reply[1].ok) =>
        LET tasks == tw_reply[1].val
        IN  /\ last.result \in {"ok", "could not choose a task"}
            /\ last.result = "ok" =>
                    /\ Working
                    /\ doing.task \in tasks
                    /\ doing.task.urgency > 0
            /\ (\A t \in tasks : t.urgency = 0) =>
                    last.result = "could not choose a task"
            /\ ({t.urgency : t \in tasks} = {10, 0}) =>
                    (last.result = "ok" /\ doing.task.urgency = 10)

C18_Witness ==
    /\ Selected /\ Working /\ tw_reply # <<>> /\ tw_reply[1].ok
    /\ {t.urgency : t \in tw_reply[1].val} = {10, 0}
    /\ doing.task.urgency = 10 /\ doing.task.uuid = "b" /\ last.key = "r"

\* C19: handling 'q' sets the quit flag and nothing else; the flag is never
\* cleared; the quit check comes right after the handler and before the check for a
\* staged interaction, and with the flag set it ends the loop, which returns Ok
\* (exit 0) without another tick or input being handled.
C19_QuitState ==
    /\ should_quit =>
            /\ pc \in {"check_quit", "quit", "exit_0"}
            /\ last.op = "input" /\ last.key = "q"
            /\ error = <<>>
    /\ pc \in {"quit", "exit_0"} => should_quit

C19_QuitSteps ==
    [][ /\ should_quit => should_quit'
        /\ (HandlerStep /\ last'.op = "input" /\ last'.key = "q") =>
                /\ should_quit'
                /\ doing' = doing /\ interactive' = interactive
                /\ pc' = "check_quit"
        /\ (HandlerStep /\ ~(last'.op = "input" /\ last'.key = "q")) => ~should_quit'
        /\ (pc = "check_quit" /\ should_quit) => (pc' = "quit" /\ UNCHANGED appvars)
        /\ pc = "quit" => (pc' = "exit_0" /\ UNCHANGED appvars)
        /\ (pc' = "check_interactive" /\ pc' # pc) => (pc = "check_quit" /\ ~should_quit)
        /\ should_quit => last' = last
      ]_vars

\* C19: both parts
C19_Quit == []C19_QuitState /\ C19_QuitSteps

\* quit while working on an extended task
C19_Witness ==
    /\ pc = "exit_0" /\ should_quit /\ Working /\ extends = 1
    /\ surface = "restored" /\ interactive = <<>>

\* C20: an iteration applies exactly one handler: leaving the wait is one call of
\* handle_tick or of handle_input; the quit check, the taking and running of a staged
\* command and its refresh follow it, and the loop waits again only after the next
\* render; outside the wait no handler is called, and the activity is assigned only
\* by the one handler and by that refresh.
C20_OneHandlerPerIteration ==
    [][ /\ (pc = "select" /\ pc' # pc) =>
                /\ last'.op \in {"tick", "input"}
                /\ pc' \in {"check_quit", "failed"}
        /\ (last' # last \/ should_quit' # should_quit) => pc' # pc
        /\ (pc' = "select" /\ pc # pc') => pc = "render"
        /\ (pc' = "render" /\ pc # pc') =>
                \/ pc = "start"
                \/ pc = "refresh"
                \/ pc = "check_interactive" /\ interactive = <<>>
        /\ (pc' = "check_interactive" /\ pc # pc') => pc = "check_quit"
        /\ pc \notin {"start", "select"} =>
                \/ last' = last
                \/ pc = "refresh" /\ last'.op = "refresh"
        /\ doing' # doing => pc \in {"start", "select", "refresh"}
        /\ (interactive' # interactive /\ interactive' # <<>>) => pc = "select"
      ]_vars

\* an iteration that handled 'b', ran the command and refreshed, back at the render
C20_Witness ==
    /\ pc = "render" /\ last.op = "refresh" /\ last.result = "ok"
    /\ last.pre = [kind |-> "Task", uuid |-> "b"] /\ Working /\ clock = 20
    /\ tw_call = << [filters |-> <<"b", "limit:1">>] >>

(* The tracker's answer to the export of the last call was a failure: the   *)
(* call itself failed, or the export of the one task yielded none           *)
TrackerFailed(reply, l) ==
    /\ reply # <<>>
    /\ \/ ~reply[1].ok
       \/ l.op = "refresh" /\ reply[1].val = {}

\* C21: a failed tracker call is propagated and not retried: after a failed export
\* of the candidates (tick, 'r', 'd', 'w') or of the one task (refresh, an empty
\* answer included) the run is on its way out with that error, the step of the
\* failing call left the activity as it was, and nothing but the exit with code 1
\* follows, with no further export.
C21_FailureState ==
    TrackerFailed(tw_reply, last) =>
        /\ pc = "failed"
        /\ last.result \in {"could not get tasks", "could not refresh task",
                            "could not find task"}
        /\ Len(error) = 2 /\ error[2] = last.result
        /\ last.op = "tick" \/ last.op = "refresh" \/ last.key \in {"r", "d", "w"}

C21_FailureSteps ==
    [][ /\ TrackerFailed(tw_reply', last') /\ pc # "failed" =>
                /\ doing' = doing /\ extends' = extends
                /\ pc' = "failed"
        /\ pc = "failed" =>
                /\ pc' = "exit_1"
                /\ tw_call' = None /\ tw_reply' = None
                /\ UNCHANGED <<appvars, last, error>>
        /\ pc = "exit_1" => FALSE
      ]_vars

\* C21: both parts
C21_PropagatedNotRetried == []C21_FailureState /\ C21_FailureSteps

\* the candidates could not be fetched on 'w': the defer stays staged, the task held
C21_Witness ==
    /\ pc = "failed" /\ TrackerFailed(tw_reply, last)
    /\ last.key = "w" /\ last.result = "could not get tasks"
    /\ Working /\ doing.task.uuid = "a" /\ last.pre.uuid = "a"
    /\ interactive = << <<"task", "a", "modify", "wait:1h">> >>

\* C22: the activity is Nothing only before the initial tick has selected: the run
\* starts with Nothing, the first render follows one successful tick, no step assigns
\* Nothing, so everywhere in the loop the activity is a task or a break (Nothing is
\* left only in a run that the failed initial tick is ending); and a step that changes
\* the variant or the started time is a successful selection.
C22_NothingState ==
    /\ pc = "start" => (is_nothing(doing) /\ last = NoLast)
    /\ pc \notin {"start", "failed", "exit_1"} => (Working \/ OnBreak)
    /\ is_nothing(doing) =>
            \/ pc = "start"
            \/ /\ pc \in {"failed", "exit_1"}
               /\ last.op = "tick" /\ last.pre.kind = "Nothing" /\ last.result # "ok"

C22_NothingSteps ==
    [][ /\ is_nothing(doing') => is_nothing(doing)
        /\ (pc = "start" /\ pc' # pc) =>
                /\ last'.op = "tick" /\ last'.pre.kind = "Nothing" /\ last'.selected
                /\ pc' = IF last'.result = "ok" THEN "render" ELSE "failed"
        /\ (pc' = "render" /\ pc' # pc) => ~is_nothing(doing')
        /\ HandlerStep /\ pc = "select" => ~is_nothing(doing)
        /\ (doing'.kind # doing.kind \/ doing'.started # doing.started) =>
                /\ SelectionStep
                /\ doing'.started = clock
      ]_vars

\* C22: both parts
C22_NothingOnlyBeforeInitialTick == []C22_NothingState /\ C22_NothingSteps

\* the first render, after the initial tick rolled a break from Nothing
C22_Witness ==
    /\ pc = "render" /\ last.op = "tick" /\ last.pre.kind = "Nothing"
    /\ Selected /\ OnBreak /\ last.roll = 0 /\ doing.started = 0

\* C23: edit, open-external, breakdown and defer act on a task only: handled while
\* the activity is not a task they change neither the activity nor the pending
\* interaction and make no selection (mark-done, handled on a break, does select);
\* handled while working on t each stages its command with t's uuid, and of the four
\* only defer runs the selector, the other three leaving the activity as it is.
C23_TaskDirected ==
    [][ (HandlerStep /\ last'.op = "input") =>
            /\ (last'.key \in {"e", "o", "b", "w"} /\ doing.kind # "Task") =>
                    /\ doing' = doing /\ extends' = extends
                    /\ interactive' = interactive
                    /\ ~last'.selected /\ tw_call' = None
                    /\ last'.result = "ok" /\ pc' = "check_quit"
            /\ (last'.key = "d" /\ doing.kind # "Task") =>
                    (last'.selected /\ interactive' = None)
            /\ (last'.key \in {"e", "o", "b", "w"} /\ doing.kind = "Task") =>
                    /\ interactive' = Some(StagedFor(last'.key, doing.task.uuid))
                    /\ last'.selected <=> last'.key = "w"
                    /\ last'.key # "w" => (doing' = doing /\ extends' = extends)
      ]_vars

\* a defer handled on a break: nothing staged, the break goes on
C23_Witness ==
    /\ pc = "check_quit" /\ last.op = "input" /\ last.key = "w"
    /\ last.pre.kind = "Break" /\ ~last.selected
    /\ OnBreak /\ doing.started = 0 /\ clock = 20 /\ interactive = None

====
